---- MODULE Spec2Model ----
(***************************************************************************)
(* Model of package snapshot (snapshot.go): Collect, which reads runtime   *)
(* and OS state into a Snapshot record, and Full, which writes a ZIP       *)
(* archive with snapshot.json, stack.txt and heap.bin.                     *)
(*                                                                         *)
(* Full is modelled one statement per action so that every error return,   *)
(* every ignored error and every interleaving of two concurrent calls is   *)
(* a distinct behaviour.  Collect is one atomic read of the OS state.      *)
(***************************************************************************)
EXTENDS Integers, Sequences, FiniteSets, TLC

\* ---------------------------------------------------------------- bounds
\* Calls to Full made by all callers together.
MaxCalls == 2
\* Names os.CreateTemp can draw the random suffix of "dump*" from.
NumTmpNames == 3
\* Cap on the runtime's allocation counter.
MaxMallocs == 3

\* Two goroutines calling Full, caller c with target path c.
Callers == {1, 2}
TmpNames == 1..NumTmpNames

VARIABLES
    os,        \* which OS / runtime lookups succeed
    mallocs,   \* the runtime's allocation counter (MemStats, GCStats)
    recs,      \* results of the calls to Collect since the last OS change
    pc,        \* pc[c]: the statement of Full caller c is at
    ncalls,    \* ncalls[c]: calls to Full made by caller c
    log,       \* log[c]: statements executed by c's current call, with outcome
    result,    \* result[c]: what c's current call returned
    out,       \* out[c]: the file at caller c's target path
    tmpFile,   \* tmpFile[c]: the *os.File returned by os.CreateTemp
    tmp        \* tmp[n]: the file "dump<n>" of the temp directory

vars == <<os, mallocs, recs, pc, ncalls, log, result, out, tmpFile, tmp>>
collectVars == <<os, mallocs, recs>>
fullVars == <<pc, ncalls, log, result, out, tmpFile, tmp>>

\* ------------------------------------------------------------- Collect
OsStates == [buildOk : BOOLEAN, exeOk : BOOLEAN, wdOk : BOOLEAN, hostOk : BOOLEAN]

\* The zero value of Snapshot.
ZeroSnapshot ==
    [Memory |-> 0, GC |-> 0, Stack |-> "", BuildInfo |-> "", NumGoRoutines |-> 0,
     Pid |-> 0, Uid |-> 0, Gid |-> 0, Environ |-> <<>>,
     Executable |-> "", Wd |-> "", Hostname |-> ""]

\* debug.ReadBuildInfo: (nil, false) when the binary has no build information.
ReadBuildInfo(o) ==
    IF o.buildOk THEN [ptr |-> "main-module", ok |-> TRUE]
                 ELSE [ptr |-> "nil", ok |-> FALSE]

\* os.Executable, os.Getwd, os.Hostname: ("", err) on failure.
Executable(o) == IF o.exeOk THEN "/usr/bin/app" ELSE ""
Getwd(o) == IF o.wdOk THEN "/srv/app" ELSE ""
Hostname(o) == IF o.hostOk THEN "host-a" ELSE ""

\* Collect with the group id taken from the wrong source.
CollectWrongGid(o, m) ==
    IF ReadBuildInfo(o).ptr = "nil"
    THEN [panicked |-> TRUE, s |-> ZeroSnapshot]
    ELSE [panicked |-> FALSE,
          s |-> [Memory |-> m + 1, GC |-> m + 1, Stack |-> "goroutine 1 [running]",
                 BuildInfo |-> ReadBuildInfo(o).ptr,
                 NumGoRoutines |-> Cardinality(Callers) + 1,
                 Pid |-> 4242, Uid |-> 1000, Gid |-> m + 1,
                 Environ |-> <<"PATH=/usr/bin">>,
                 Executable |-> Executable(o),
                 Wd |-> Getwd(o),
                 Hostname |-> Hostname(o)]]

\* Collect.  The result of ReadBuildInfo is dereferenced without looking at
\* ok, so a nil pointer panics at the assignment to s.BuildInfo and nothing
\* is returned.
Collect(o, m) ==
    IF ReadBuildInfo(o).ptr = "nil"
    THEN [panicked |-> TRUE, s |-> ZeroSnapshot]
    ELSE [panicked |-> FALSE,
          s |-> [Memory |-> m + 1, GC |-> m + 1, Stack |-> "goroutine 1 [running]",
                 BuildInfo |-> ReadBuildInfo(o).ptr,
                 NumGoRoutines |-> Cardinality(Callers) + 1,
                 Pid |-> 4242, Uid |-> 1000, Gid |-> 1000,
                 Environ |-> <<"PATH=/usr/bin">>,
                 Executable |-> Executable(o),
                 Wd |-> Getwd(o),
                 Hostname |-> Hostname(o)]]

\* The OS state changes (chdir, hostname change, ...): earlier results are no
\* longer comparable with later ones.
OsChange ==
    /\ \E o \in OsStates \ {os} : os' = o
    /\ recs' = <<>>
    /\ UNCHANGED <<mallocs>>
    /\ UNCHANGED fullVars

\* The program allocates: the runtime's counters advance.
RuntimeTick ==
    /\ mallocs < MaxMallocs
    /\ mallocs' = mallocs + 1
    /\ UNCHANGED <<os, recs>>
    /\ UNCHANGED fullVars

\* A caller calls Collect; the last two results are kept for comparison.
CallCollect ==
    /\ recs' = IF Len(recs) < 2 THEN Append(recs, Collect(os, mallocs))
                                ELSE <<recs[2], Collect(os, mallocs)>>
    /\ UNCHANGED <<os, mallocs>>
    /\ UNCHANGED fullVars

\* ---------------------------------------------------------------- Full
\* One executed statement: its name, whether it succeeded, and how much it
\* wrote: "zero" (nothing), "partial" (cut short) or "full".
Ev(op, ok, n) == [op |-> op, ok |-> ok, n |-> n]

NoFile == [exists |-> FALSE, entries |-> <<>>, finalized |-> FALSE]
NoTmpFile == [name |-> 0, atEnd |-> FALSE]
NoTmp == [exists |-> FALSE, size |-> "zero", owner |-> <<0, 0>>]

\* The statement continues with the next one.
Goto(c, ev, next) ==
    /\ log' = [log EXCEPT ![c] = Append(@, ev)]
    /\ pc' = [pc EXCEPT ![c] = next]
    /\ UNCHANGED result

\* return fmt.Errorf("<tag>: ...") / return nil after the file was opened:
\* the deferred f.Close() runs.
Return(c, ev, tag) ==
    /\ log' = [log EXCEPT ![c] = Append(Append(@, ev), Ev("f.Close", TRUE, "zero"))]
    /\ pc' = [pc EXCEPT ![c] = "done"]
    /\ result' = [result EXCEPT ![c] = tag]

\* zw.Create(name): a new entry is appended to the archive.
ZwCreate(f, name, c) ==
    [f EXCEPT !.entries = Append(@, [name |-> name, size |-> "zero", src |-> c])]

\* Bytes written to the entry returned by the last zw.Create.
ZwWrite(f, n) ==
    [f EXCEPT !.entries[Len(f.entries)].size = n]

\* Calls to Full made so far.
TotalCalls == ncalls[1] + ncalls[2]

\* A caller calls Full(fileName).
Call(c) ==
    /\ pc[c] \in {"idle", "done"}
    /\ TotalCalls < MaxCalls
    /\ ncalls' = [ncalls EXCEPT ![c] = @ + 1]
    /\ pc' = [pc EXCEPT ![c] = "open"]
    /\ log' = [log EXCEPT ![c] = <<>>]
    /\ result' = [result EXCEPT ![c] = "none"]
    /\ tmpFile' = [tmpFile EXCEPT ![c] = NoTmpFile]
    /\ UNCHANGED <<out, tmp>>
    /\ UNCHANGED collectVars

\* Open without the return in the error branch.
OpenNoReturn(c) ==
    /\ pc[c] = "open"
    /\ \/ /\ out' = [out EXCEPT ![c] = [exists |-> TRUE, entries |-> <<>>, finalized |-> FALSE]]
          /\ Goto(c, Ev("os.OpenFile", TRUE, "zero"), "collect")
       \/ /\ Goto(c, Ev("os.OpenFile", FALSE, "zero"), "collect")
          /\ UNCHANGED out
    /\ UNCHANGED <<ncalls, tmpFile, tmp>>
    /\ UNCHANGED collectVars

\* f, err := os.OpenFile(fileName, O_CREATE|O_WRONLY|O_TRUNC, ModePerm)
Open(c) ==
    /\ pc[c] = "open"
    /\ \/ /\ out' = [out EXCEPT ![c] = [exists |-> TRUE, entries |-> <<>>, finalized |-> FALSE]]
          /\ Goto(c, Ev("os.OpenFile", TRUE, "zero"), "collect")
       \/ /\ log' = [log EXCEPT ![c] = Append(@, Ev("os.OpenFile", FALSE, "zero"))]
          /\ pc' = [pc EXCEPT ![c] = "done"]
          /\ result' = [result EXCEPT ![c] = "open"]
          /\ UNCHANGED out
    /\ UNCHANGED <<ncalls, tmpFile, tmp>>
    /\ UNCHANGED collectVars

\* zw := zip.NewWriter(f); sn := Collect()
CollectStep(c) ==
    /\ pc[c] = "collect"
    /\ IF Collect(os, mallocs).panicked
       THEN Return(c, Ev("Collect", FALSE, "zero"), "panic")
       ELSE Goto(c, Ev("Collect", TRUE, "zero"), "createSnapshot")
    /\ UNCHANGED <<ncalls, out, tmpFile, tmp>>
    /\ UNCHANGED collectVars

\* snapshotFile, err := zw.Create("snapshot.json")
CreateSnapshot(c) ==
    /\ pc[c] = "createSnapshot"
    /\ \/ /\ out' = [out EXCEPT ![c] = ZwCreate(@, "snapshot.json", c)]
          /\ Goto(c, Ev("zw.Create snapshot.json", TRUE, "zero"), "encode")
       \/ /\ Return(c, Ev("zw.Create snapshot.json", FALSE, "zero"), "snapshot")
          /\ UNCHANGED out
    /\ UNCHANGED <<ncalls, tmpFile, tmp>>
    /\ UNCHANGED collectVars

\* Encode with its error dropped.
EncodeErrDropped(c) ==
    /\ pc[c] = "encode"
    /\ \/ /\ out' = [out EXCEPT ![c] = ZwWrite(@, "full")]
          /\ Goto(c, Ev("encoder.Encode", TRUE, "full"), "createStack")
       \/ \E n \in {"zero", "partial"} :
             /\ out' = [out EXCEPT ![c] = ZwWrite(@, n)]
             /\ Goto(c, Ev("encoder.Encode", FALSE, n), "createStack")
    /\ UNCHANGED <<ncalls, tmpFile, tmp>>
    /\ UNCHANGED collectVars

\* encoder.Encode(sn)
Encode(c) ==
    /\ pc[c] = "encode"
    /\ \/ /\ out' = [out EXCEPT ![c] = ZwWrite(@, "full")]
          /\ Goto(c, Ev("encoder.Encode", TRUE, "full"), "createStack")
       \/ \E n \in {"zero", "partial"} :
             /\ out' = [out EXCEPT ![c] = ZwWrite(@, n)]
             /\ Return(c, Ev("encoder.Encode", FALSE, n), "snapshot")
    /\ UNCHANGED <<ncalls, tmpFile, tmp>>
    /\ UNCHANGED collectVars

\* traceFile, err := zw.Create("stack.txt")
CreateStack(c) ==
    /\ pc[c] = "createStack"
    /\ \/ /\ out' = [out EXCEPT ![c] = ZwCreate(@, "stack.txt", c)]
          /\ Goto(c, Ev("zw.Create stack.txt", TRUE, "zero"), "writeTo")
       \/ /\ Return(c, Ev("zw.Create stack.txt", FALSE, "zero"), "trace")
          /\ UNCHANGED out
    /\ UNCHANGED <<ncalls, tmpFile, tmp>>
    /\ UNCHANGED collectVars

\* WriteTo with its error dropped.
WriteToErrDropped(c) ==
    /\ pc[c] = "writeTo"
    /\ \/ /\ out' = [out EXCEPT ![c] = ZwWrite(@, "full")]
          /\ Goto(c, Ev("WriteTo", TRUE, "full"), "createTemp")
       \/ \E n \in {"zero", "partial"} :
             /\ out' = [out EXCEPT ![c] = ZwWrite(@, n)]
             /\ Goto(c, Ev("WriteTo", FALSE, n), "createTemp")
    /\ UNCHANGED <<ncalls, tmpFile, tmp>>
    /\ UNCHANGED collectVars

\* pprof.Lookup("goroutine").WriteTo(traceFile, 1)
WriteTo(c) ==
    /\ pc[c] = "writeTo"
    /\ \/ /\ out' = [out EXCEPT ![c] = ZwWrite(@, "full")]
          /\ Goto(c, Ev("WriteTo", TRUE, "full"), "createTemp")
       \/ \E n \in {"zero", "partial"} :
             /\ out' = [out EXCEPT ![c] = ZwWrite(@, n)]
             /\ Return(c, Ev("WriteTo", FALSE, n), "trace")
    /\ UNCHANGED <<ncalls, tmpFile, tmp>>
    /\ UNCHANGED collectVars

\* The names are interchangeable, so of the names CreateTemp may return the
\* model takes the least one.
FirstOf(S) == {n \in S : \A k \in S : n <= k}

\* A fixed temporary name, opened whether or not it exists (os.Create).
TmpFixedName(t) == {1}

\* The names os.CreateTemp("", "dump") may return: it opens with O_EXCL and
\* draws another random suffix while the name is taken.
TmpCandidates(t) == {n \in TmpNames : ~t[n].exists}

\* CreateTemp without the return in the error branch.
CreateTempNoReturn(c) ==
    /\ pc[c] = "createTemp"
    /\ \/ \E n \in FirstOf(TmpCandidates(tmp)) :
             /\ tmp' = [tmp EXCEPT ![n] = [exists |-> TRUE, size |-> "zero",
                                           owner |-> <<c, ncalls[c]>>]]
             /\ tmpFile' = [tmpFile EXCEPT ![c] = [name |-> n, atEnd |-> FALSE]]
             /\ Goto(c, Ev("os.CreateTemp", TRUE, "zero"), "heapDump")
       \/ /\ Goto(c, Ev("os.CreateTemp", FALSE, "zero"), "heapDump")
          /\ UNCHANGED <<tmpFile, tmp>>
    /\ UNCHANGED <<ncalls, out>>
    /\ UNCHANGED collectVars

\* tmpFile, err := os.CreateTemp("", "dump")
CreateTemp(c) ==
    /\ pc[c] = "createTemp"
    /\ \/ \E n \in FirstOf(TmpCandidates(tmp)) :
             /\ tmp' = [tmp EXCEPT ![n] = [exists |-> TRUE, size |-> "zero",
                                           owner |-> <<c, ncalls[c]>>]]
             /\ tmpFile' = [tmpFile EXCEPT ![c] = [name |-> n, atEnd |-> FALSE]]
             /\ Goto(c, Ev("os.CreateTemp", TRUE, "zero"), "heapDump")
       \/ /\ Return(c, Ev("os.CreateTemp", FALSE, "zero"), "dump")
          /\ UNCHANGED <<tmpFile, tmp>>
    /\ UNCHANGED <<ncalls, out>>
    /\ UNCHANGED collectVars

\* debug.WriteHeapDump(tmpFile.Fd()): no result; when the runtime's writes to
\* the descriptor fail (disk full) the file stays empty and nothing is reported.
HeapDump(c) ==
    /\ pc[c] = "heapDump"
    /\ \/ /\ tmp' = [tmp EXCEPT ![tmpFile[c].name].size = "full"]
          /\ tmpFile' = [tmpFile EXCEPT ![c].atEnd = TRUE]
          /\ Goto(c, Ev("debug.WriteHeapDump", TRUE, "full"), "seek")
       \/ /\ Goto(c, Ev("debug.WriteHeapDump", FALSE, "zero"), "seek")
          /\ UNCHANGED <<tmp, tmpFile>>
    /\ UNCHANGED <<ncalls, out>>
    /\ UNCHANGED collectVars

\* tmpFile.Seek(0, 0): the error is dropped.
Seek(c) ==
    /\ pc[c] = "seek"
    /\ \/ /\ tmpFile' = [tmpFile EXCEPT ![c].atEnd = FALSE]
          /\ Goto(c, Ev("tmpFile.Seek", TRUE, "zero"), "createHeap")
       \/ /\ Goto(c, Ev("tmpFile.Seek", FALSE, "zero"), "createHeap")
          /\ UNCHANGED tmpFile
    /\ UNCHANGED <<ncalls, out, tmp>>
    /\ UNCHANGED collectVars

\* dumpFile, err := zw.Create("heap.bin"): the error return leaves the
\* temporary file open and on disk.
CreateHeap(c) ==
    /\ pc[c] = "createHeap"
    /\ \/ /\ out' = [out EXCEPT ![c] = ZwCreate(@, "heap.bin", c)]
          /\ Goto(c, Ev("zw.Create heap.bin", TRUE, "zero"), "copy")
       \/ /\ Return(c, Ev("zw.Create heap.bin", FALSE, "zero"), "dump")
          /\ UNCHANGED out
    /\ UNCHANGED <<ncalls, tmpFile, tmp>>
    /\ UNCHANGED collectVars

\* What a read of the temporary file from the handle's offset yields.
Readable(t, h) ==
    IF ~t[h.name].exists \/ h.atEnd THEN "zero" ELSE t[h.name].size

\* What a failed copy can have written of avail bytes.
Short(avail) == IF avail = "zero" THEN {"zero"} ELSE {"zero", "partial"}

\* io.Copy(dumpFile, tmpFile): the error is dropped.
Copy(c) ==
    /\ pc[c] = "copy"
    /\ \/ /\ out' = [out EXCEPT ![c] = ZwWrite(@, Readable(tmp, tmpFile[c]))]
          /\ Goto(c, Ev("io.Copy", TRUE, Readable(tmp, tmpFile[c])), "closeTmp")
       \/ \E n \in Short(Readable(tmp, tmpFile[c])) :
             /\ out' = [out EXCEPT ![c] = ZwWrite(@, n)]
             /\ Goto(c, Ev("io.Copy", FALSE, n), "closeTmp")
    /\ tmpFile' = [tmpFile EXCEPT ![c].atEnd = TRUE]
    /\ UNCHANGED <<ncalls, tmp>>
    /\ UNCHANGED collectVars

\* tmpFile.Close()
CloseTmp(c) ==
    /\ pc[c] = "closeTmp"
    /\ Goto(c, Ev("tmpFile.Close", TRUE, "zero"), "remove")
    /\ UNCHANGED <<ncalls, out, tmpFile, tmp>>
    /\ UNCHANGED collectVars

\* os.Remove(tmpFile.Name()): the error is dropped.
Remove(c) ==
    /\ pc[c] = "remove"
    /\ \/ /\ tmp' = [tmp EXCEPT ![tmpFile[c].name] = NoTmp]
          /\ Goto(c, Ev("os.Remove", TRUE, "zero"), "zwClose")
       \/ /\ Goto(c, Ev("os.Remove", FALSE, "zero"), "zwClose")
          /\ UNCHANGED tmp
    /\ UNCHANGED <<ncalls, out, tmpFile>>
    /\ UNCHANGED collectVars

\* zw.Close(); return nil: the error of Close is dropped.
ZwClose(c) ==
    /\ pc[c] = "zwClose"
    /\ \/ /\ out' = [out EXCEPT ![c].finalized = TRUE]
          /\ Return(c, Ev("zw.Close", TRUE, "zero"), "nil")
       \/ /\ Return(c, Ev("zw.Close", FALSE, "zero"), "nil")
          /\ UNCHANGED out
    /\ UNCHANGED <<ncalls, tmpFile, tmp>>
    /\ UNCHANGED collectVars

Full(c) ==
    \/ Call(c) \/ Open(c) \/ CollectStep(c)
    \/ CreateSnapshot(c) \/ Encode(c)
    \/ CreateStack(c) \/ WriteTo(c)
    \/ CreateTemp(c) \/ HeapDump(c) \/ Seek(c) \/ CreateHeap(c) \/ Copy(c)
    \/ CloseTmp(c) \/ Remove(c) \/ ZwClose(c)

\* ------------------------------------------------------- specifications
\* Full depends on the OS state only through Collect panicking or not.
FullOsStates == {o \in OsStates : o.exeOk /\ o.wdOk /\ o.hostOk}

InitFull ==
    /\ pc = [c \in Callers |-> "idle"]
    /\ ncalls = [c \in Callers |-> 0]
    /\ log = [c \in Callers |-> <<>>]
    /\ result = [c \in Callers |-> "none"]
    /\ out = [c \in Callers |-> NoFile]
    /\ tmpFile = [c \in Callers |-> NoTmpFile]
    /\ tmp = [n \in TmpNames |-> NoTmp]

Init ==
    /\ os \in FullOsStates
    /\ mallocs = 0
    /\ recs = <<>>
    /\ InitFull

InitCollect ==
    /\ os \in OsStates
    /\ mallocs = 0
    /\ recs = <<>>
    /\ InitFull

\* Concurrent calls to Full.
Next == \E c \in Callers : Full(c)
Spec == Init /\ [][Next]_vars

\* Calls to Collect while the OS state and the runtime's counters change.
NextCollect == OsChange \/ RuntimeTick \/ CallCollect
SpecCollect == InitCollect /\ [][NextCollect]_vars

\* ------------------------------------------------- reading the log
Has(l, op) == \E i \in DOMAIN l : l[i].op = op
Succeeded(l, op) == \E i \in DOMAIN l : l[i].op = op /\ l[i].ok
Failed(l, op) == \E i \in DOMAIN l : l[i].op = op /\ ~l[i].ok
Count(l, op) == Cardinality({i \in DOMAIN l : l[i].op = op})
EvOf(l, op) == l[CHOOSE i \in DOMAIN l : l[i].op = op]
\* The statements of the log that succeeded, that failed.
OkOps(l) == {l[i].op : i \in {j \in DOMAIN l : l[j].ok}}
BadOps(l) == {l[i].op : i \in {j \in DOMAIN l : ~l[j].ok}}

\* The statements of Full in program order (the deferred f.Close excluded).
Statements ==
    <<"os.OpenFile", "Collect", "zw.Create snapshot.json", "encoder.Encode",
      "zw.Create stack.txt", "WriteTo", "os.CreateTemp", "debug.WriteHeapDump",
      "tmpFile.Seek", "zw.Create heap.bin", "io.Copy", "tmpFile.Close",
      "os.Remove", "zw.Close">>

\* The log without the deferred f.Close.
Body(l) == SelectSeq(l, LAMBDA e : e.op # "f.Close")

\* The temporary file created by c's current call is still on disk.
OwnTmpExists(c) ==
    /\ tmpFile[c].name # 0
    /\ tmp[tmpFile[c].name].exists
    /\ tmp[tmpFile[c].name].owner = <<c, ncalls[c]>>

EntryNames(f) == [i \in DOMAIN f.entries |-> f.entries[i].name]

\* ------------------------------------------------------------------ C1
\* C1: whenever Full has returned from a call in which os.CreateTemp
\* succeeded, the temporary file of that call no longer exists.
TmpRemovedOnReturn ==
    \A c \in Callers :
        (pc[c] = "done" /\ Succeeded(log[c], "os.CreateTemp")) => ~OwnTmpExists(c)

\* ------------------------------------------------------------------ C2
\* C2: every call to Collect returns a record (no panic) in which each field
\* whose lookup failed is zero/empty and every other field is populated.
CollectNeverFails ==
    \A i \in DOMAIN recs :
        /\ ~recs[i].panicked
        /\ (recs[i].s.BuildInfo # "") <=> os.buildOk
        /\ (recs[i].s.Executable # "") <=> os.exeOk
        /\ (recs[i].s.Wd # "") <=> os.wdOk
        /\ (recs[i].s.Hostname # "") <=> os.hostOk
        /\ recs[i].s.Pid # 0 /\ recs[i].s.Stack # "" /\ recs[i].s.Environ # <<>>

\* ------------------------------------------------------------------ C3
\* C3: after Full returned nil the archive is finalized and holds exactly
\* the entries snapshot.json, stack.txt, heap.bin, each of non-zero size.
ArchiveComplete ==
    \A c \in Callers :
        (pc[c] = "done" /\ result[c] = "nil") =>
            /\ out[c].exists /\ out[c].finalized
            /\ EntryNames(out[c]) = <<"snapshot.json", "stack.txt", "heap.bin">>
            /\ \A i \in DOMAIN out[c].entries : out[c].entries[i].size # "zero"

\* ------------------------------------------------------------------ C4
\* C4: when os.OpenFile fails, Full returns the error tagged open and has
\* done nothing else: the failed open is the only statement executed, the
\* file at the target path and the temp directory are as they were, no
\* temporary file belongs to the call.
OpenFailureState ==
    \A c \in Callers :
        Failed(log[c], "os.OpenFile") =>
            /\ pc[c] = "done" /\ result[c] = "open"
            /\ log[c] = <<Ev("os.OpenFile", FALSE, "zero")>>
            /\ tmpFile[c] = NoTmpFile
            /\ \A n \in TmpNames : tmp[n].owner # <<c, ncalls[c]>>
            /\ (ncalls[c] = 1 => out[c] = NoFile)

OpenFailureStep ==
    \A c \in Callers :
        (pc[c] = "open" /\ Failed(log'[c], "os.OpenFile")) =>
            /\ out' = out /\ tmp' = tmp /\ tmpFile' = tmpFile
            /\ pc'[c] = "done"

OpenFailureDoesNothing == []OpenFailureState /\ [][OpenFailureStep]_vars

OpenFailureWitness ==
    \E c \in Callers :
        /\ pc[c] = "done" /\ result[c] = "open"
        /\ ncalls[c] = 2 /\ out[c].exists /\ Len(out[c].entries) = 3

\* ------------------------------------------------------------------ C5
\* C5: when a step of the heap-dump stage failed (CreateTemp, the dump,
\* Seek, creating heap.bin, Copy), Full returns the error tagged dump.
DumpStage ==
    {"os.CreateTemp", "debug.WriteHeapDump", "tmpFile.Seek", "zw.Create heap.bin", "io.Copy"}

DumpFailureReported ==
    \A c \in Callers :
        (pc[c] = "done" /\ \E op \in DumpStage : Failed(log[c], op)) => result[c] = "dump"

\* ------------------------------------------------------------------ C6
\* C6: a failed snapshot-stage step makes Full return the error tagged
\* snapshot, a failed trace-stage step the error tagged trace; the failed
\* step is the last statement executed before the deferred close, so no
\* later entry and no temporary file is created and the archive is not
\* finalized.
StageFailure(c, ops, tag, later) ==
    (ops \cap BadOps(log[c]) # {}) =>
        /\ pc[c] = "done" /\ result[c] = tag
        /\ LET b == Body(log[c]) IN ~b[Len(b)].ok /\ b[Len(b)].op \in ops
        /\ \A i \in DOMAIN out[c].entries : out[c].entries[i].name \notin later
        /\ tmpFile[c] = NoTmpFile
        /\ ~out[c].finalized
        /\ ~Has(log[c], "os.CreateTemp") /\ ~Has(log[c], "zw.Close")

SnapshotTraceFailure ==
    \A c \in Callers :
        /\ StageFailure(c, {"zw.Create snapshot.json", "encoder.Encode"}, "snapshot",
                        {"stack.txt", "heap.bin"})
        /\ StageFailure(c, {"zw.Create stack.txt", "WriteTo"}, "trace", {"heap.bin"})

SnapshotTraceFailureWitness ==
    /\ pc[1] = "done" /\ result[1] = "snapshot" /\ Failed(log[1], "encoder.Encode")
    /\ pc[2] = "done" /\ result[2] = "trace" /\ Failed(log[2], "WriteTo")

\* ------------------------------------------------------------------ C7
\* C7: two calls to Collect with no OS change between them that both return
\* agree on Pid, Uid, Gid, Executable, Wd, Hostname and BuildInfo.
Identity(s) == <<s.Pid, s.Uid, s.Gid, s.Executable, s.Wd, s.Hostname, s.BuildInfo>>

IsPrefix(a, b) == Len(a) <= Len(b) /\ \A i \in DOMAIN a : a[i] = b[i]

ApplyEv(f, e, c) ==
    CASE e.op = "os.OpenFile" /\ e.ok -> [exists |-> TRUE, entries |-> <<>>, finalized |-> FALSE]
      [] e.op = "zw.Create snapshot.json" /\ e.ok -> ZwCreate(f, "snapshot.json", c)
      [] e.op = "zw.Create stack.txt" /\ e.ok -> ZwCreate(f, "stack.txt", c)
      [] e.op = "zw.Create heap.bin" /\ e.ok -> ZwCreate(f, "heap.bin", c)
      [] e.op \in {"encoder.Encode", "WriteTo", "io.Copy"} -> ZwWrite(f, e.n)
      [] e.op = "zw.Close" /\ e.ok -> [f EXCEPT !.finalized = TRUE]
      [] OTHER -> f

RECURSIVE Replay(_, _, _, _)
Replay(l, i, f, c) ==
    IF i > Len(l) THEN f ELSE Replay(l, i + 1, ApplyEv(f, l[i], c), c)

\* What a call with these outcomes returns when it runs alone.
ResultAlone(l) ==
    LET bad == BadOps(l) IN
    CASE "os.OpenFile" \in bad -> "open"
      [] "Collect" \in bad -> "panic"
      [] {"zw.Create snapshot.json", "encoder.Encode"} \cap bad # {} -> "snapshot"
      [] {"zw.Create stack.txt", "WriteTo"} \cap bad # {} -> "trace"
      [] {"os.CreateTemp", "zw.Create heap.bin"} \cap bad # {} -> "dump"
      [] OTHER -> "nil"

\* What the copy reads when nothing but this call touches its temporary file.
CopyAlone(l) ==
    IF EvOf(l, "tmpFile.Seek").ok THEN EvOf(l, "debug.WriteHeapDump").n ELSE "zero"

UsesTmp(c) == pc[c] \in {"heapDump", "seek", "createHeap", "copy", "closeTmp", "remove"}

\* C9: concurrent calls with different paths do not interfere: while a call
\* uses its temporary file the file exists and is the one this call created,
\* no two calls use the same temporary file, the file at a call's path holds
\* what the call's own statements wrote, and result and heap.bin are those of
\* the call run alone.
CallsIndependent ==
    \A c \in Callers :
        LET l == log[c] IN
        /\ UsesTmp(c) => OwnTmpExists(c)
        /\ \A d \in Callers \ {c} :
              (UsesTmp(c) /\ UsesTmp(d)) => tmpFile[c].name # tmpFile[d].name
        /\ (l # <<>> /\ l[1] = Ev("os.OpenFile", TRUE, "zero")) =>
              /\ out[c] = Replay(l, 1, NoFile, c)
              /\ \A i \in DOMAIN out[c].entries : out[c].entries[i].src = c
        /\ pc[c] = "done" => result[c] = ResultAlone(l)
        /\ Has(l, "io.Copy") =>
              LET e == EvOf(l, "io.Copy") IN
              IF e.ok THEN e.n = CopyAlone(l) ELSE e.n \in Short(CopyAlone(l))

CallsIndependentWitness ==
    /\ pc[1] = "copy" /\ pc[2] = "remove"
    /\ tmpFile[1].name # tmpFile[2].name
    /\ out[2].entries[3].size = "full"

\* ----------------------------------------------------------------- C10
\* C10: a call triggers the heap dump at most once, and only after the open,
\* Collect, both entries of the snapshot and trace stages and os.CreateTemp
\* succeeded.
BeforeDump ==
    {"os.OpenFile", "Collect", "zw.Create snapshot.json", "encoder.Encode",
     "zw.Create stack.txt", "WriteTo", "os.CreateTemp"}

HeapDumpOnce ==
    \A c \in Callers :
        LET l == log[c]
            ok == OkOps(l)
            bad == BadOps(l)
            dumped == "debug.WriteHeapDump" \in (ok \cup bad)
        IN
        /\ Count(l, "debug.WriteHeapDump") <= 1
        /\ (pc[c] = "heapDump" \/ dumped) =>
              /\ BeforeDump \subseteq ok /\ BeforeDump \cap bad = {}
              /\ tmpFile[c].name # 0
        /\ (pc[c] = "done" /\ result[c] \in {"open", "panic", "snapshot", "trace"}) =>
              ~dumped
        /\ (pc[c] = "done" /\ "os.CreateTemp" \in bad) => ~dumped

HeapDumpOnceWitness ==
    /\ Has(log[1], "debug.WriteHeapDump") /\ pc[1] = "done"
    /\ pc[2] = "done" /\ Failed(log[2], "os.CreateTemp")

====
